---- MODULE Spec2Model ----
(***************************************************************************)
(* update-airtable-bills: src/update.py.                                   *)
(*                                                                         *)
(* The script reads the tracked bills of an Airtable base, fetches each    *)
(* bill from OpenStates through a rate limiter, and inserts one row in     *)
(* the "State status" table per upstream action that is newer than the     *)
(* bill's "Last update".                                                   *)
(*                                                                         *)
(* Encoding.  An optional Python value (None or v) is <<>> or <<v>>.  A    *)
(* Python str is a sequence of one-character strings wherever the code     *)
(* looks inside it (API keys, bill identifiers, years) and a TLA+ string   *)
(* where it is only copied.  A date is <<year, month, day>>; an upstream   *)
(* timestamp "YYYY-MM-DD HH:MM:SS" is the pair <<date, time of day>>.  The *)
(* monotonic clock counts ticks, TicksPerSecond to the second.             *)
(*                                                                         *)
(* The calls to Airtable and OpenStates return: an exception raised by     *)
(* either ends the run where it is and is not modelled.  OpenStates gives  *)
(* every bill at least one action, and as action_dates.last the timestamp  *)
(* of the most recent one.                                                 *)
(***************************************************************************)
EXTENDS Integers, Sequences, FiniteSets, TLC

VARIABLES
    clock,      \* time.clock_gettime(CLOCK_MONOTONIC): the last value read
    burst,      \* ratelimit's burst parameter
    rate,       \* ratelimit's rate parameter
    requests,   \* ratelimit's closure list of timestamps
    issued,     \* history: number of invocations of delayed
    recorded,   \* history: every timestamp delayed has appended, in order
    slept,      \* history: per completed invocation, the ticks it asked sleep for
    raised,     \* history: number of invocations that raised IndexError
    io,         \* history: the calls made to the outside, in order
    AIRTABLE_API_KEY,       \* os.environ.get("AIRTABLE_API_KEY", None)
    OPENSTATES_API_KEY,     \* os.environ.get("OPENSTATES_API_KEY", None)
    state_table,            \* Airtable: the rows of table "State", sorted by "Bill"
    openstates,             \* OpenStates: what get_bill returns for each row's bill
    run,                    \* which run of the script this is
    pc,                     \* where main is
    listed_bills,           \* main's listed_bills
    idx,                    \* position of `for bill in listed_bills`
    bill_data,              \* main's bill_data
    latest_airtable_update, \* main's latest_airtable_update
    reading,                \* main's reading
    bill_update_count,      \* main's bill_update_count
    act,                    \* position of `for update_data in bill_data["actions"]`
    stdout                  \* what print has written

limiter_vars == <<clock, burst, rate, requests, issued, recorded, slept, raised>>

env_vars == <<AIRTABLE_API_KEY, OPENSTATES_API_KEY, state_table, openstates, run>>

bill_vars == <<bill_data, latest_airtable_update, reading, bill_update_count, act>>

main_vars == <<pc, listed_bills, idx, bill_vars, stdout>>

vars == <<limiter_vars, io, env_vars, main_vars>>

----
\* Bounds of the rate limiter's harness.
MaxBurst == 3
MaxRate == 2
MaxCalls == 5
MaxGap == 2
MaxOversleep == 1

RECURSIVE Factorial(_)
Factorial(n) == IF n <= 1 THEN 1 ELSE n * Factorial(n - 1)

\* Clock resolution: every rate of 1..MaxRate divides it, so burst / rate
\* is a whole number of ticks.
TicksPerSecond == Factorial(MaxRate)

None == <<>>
Some(v) == <<v>>

----
\* ratelimit (src/update.py:20-33)

\* burst / rate, in ticks
Window(b, r) == (b * TicksPerSecond) \div r

\* Mutant of Full: `>` for `>=`
FullBeyond(reqs, b) == Len(reqs) > b

\* len(requests) >= burst
Full(reqs, b) == Len(reqs) >= b

\* last + (burst / rate)
Deadline(last, b, r) == last + Window(b, r)

\* Mutant of Popped: the oldest timestamp is read and left in the list
Peeked(reqs) == reqs

\* requests after requests.pop(0)
Popped(reqs) == Tail(reqs)

\* One invocation of delayed, up to the call of func.  `now` is the first
\* clock reading, `over` the ticks by which time.sleep overshoots (it never
\* returns early).  requests.pop(0) on an empty list raises IndexError:
\* nothing is appended and func is not called.
Delayed(reqs, b, r, now, over) ==
    IF Full(reqs, b)
    THEN IF reqs = <<>>
         THEN [raised |-> TRUE, requests |-> reqs, now |-> now, slept |-> 0]
         ELSE LET last == Head(reqs)
                  rest == Popped(reqs)
              IN  IF now < Deadline(last, b, r)
                  THEN LET woke == Deadline(last, b, r) + over
                       IN  [raised |-> FALSE, requests |-> Append(rest, woke),
                            now |-> woke, slept |-> Deadline(last, b, r) - now]
                  ELSE [raised |-> FALSE, requests |-> Append(rest, now),
                        now |-> now, slept |-> 0]
    ELSE [raised |-> FALSE, requests |-> Append(reqs, now),
          now |-> now, slept |-> 0]

\* The effect of one invocation on the limiter's state and history.
LimiterStep(now, over) ==
    LET d == Delayed(requests, burst, rate, now, over)
    IN  /\ requests' = d.requests
        /\ clock' = d.now
        /\ issued' = issued + 1
        /\ raised' = IF d.raised THEN raised + 1 ELSE raised
        /\ recorded' = IF d.raised THEN recorded ELSE Append(recorded, d.now)
        /\ slept' = IF d.raised THEN slept ELSE Append(slept, d.slept)
        /\ UNCHANGED <<burst, rate>>

----
\* main (src/update.py:36-144): the pure parts

UPPER == {"A", "B", "C", "D", "E", "F", "G", "H", "I", "J", "K", "L", "M",
          "N", "O", "P", "Q", "R", "S", "T", "U", "V", "W", "X", "Y", "Z"}

LOWER == {"a", "b", "c", "d", "e", "f", "g", "h", "i", "j", "k", "l", "m",
          "n", "o", "p", "q", "r", "s", "t", "u", "v", "w", "x", "y", "z"}

DIGITS == <<"0", "1", "2", "3", "4", "5", "6", "7", "8", "9">>

IsDigit(c) == \E d \in 1..Len(DIGITS) : DIGITS[d] = c

DigitValue(c) == (CHOOSE d \in 1..Len(DIGITS) : DIGITS[d] = c) - 1

\* re.search(r"[a-z]", s)
SearchLower(s) == \E i \in 1..Len(s) : s[i] \in LOWER

\* Mutant of KeyConfigured: only the key's presence is checked
KeyPresent(key) == key /= None /\ key[1] /= <<>>

\* not (not KEY or not re.search(r"[a-z]", KEY)): None and "" are falsy
KeyConfigured(key) == key /= None /\ key[1] /= <<>> /\ SearchLower(key[1])

\* re.sub(r"^([A-Z]+)(\d+)$", r"\1 \2", s): a string that is letters then
\* digits gets a space between them, any other string is returned as it is
ReformatBillId(s) ==
    LET Split == {p \in 1..(Len(s) - 1) :
                     /\ \A i \in 1..p : s[i] \in UPPER
                     /\ \A i \in (p + 1)..Len(s) : IsDigit(s[i])}
    IN  IF Split = {}
        THEN s
        ELSE LET p == CHOOSE q \in Split : TRUE
             IN  SubSeq(s, 1, p) \o <<" ">> \o SubSeq(s, p + 1, Len(s))

\* int(s) of a string of decimal digits
RECURSIVE ParseInt(_)
ParseInt(s) ==
    IF s = <<>> THEN 0
    ELSE 10 * ParseInt(SubSeq(s, 1, Len(s) - 1)) + DigitValue(s[Len(s)])

\* "{}".format(n) of a non-negative int
RECURSIVE FormatInt(_)
FormatInt(n) ==
    IF n < 10 THEN <<DIGITS[n + 1]>>
    ELSE FormatInt(n \div 10) \o <<DIGITS[(n % 10) + 1]>>

\* Mutant of OddYear: the test the other way round
OddYearSwapped(year) == year % 2 = 0

\* year % 2 != 0
OddYear(year) == year % 2 /= 0

\* leg_year of lines 73-76
LegYear(year) ==
    IF OddYear(year)
    THEN FormatInt(year) \o FormatInt(year + 1)
    ELSE FormatInt(year - 1) \o FormatInt(year)

\* A datetime.date is <<year, month, day>>, and so is the ISO string
\* "YYYY-MM-DD" that date.fromisoformat reads and date.isoformat writes.
\* date.__le__: by year, then month, then day
DateLE(a, b) ==
    \/ a[1] < b[1]
    \/ a[1] = b[1] /\ a[2] < b[2]
    \/ a[1] = b[1] /\ a[2] = b[2] /\ a[3] <= b[3]

\* datetime.date() of a datetime, and the date part of "YYYY-MM-DD HH:MM:SS":
\* update_data["date"].split(" ")[0]
DatePart(timestamp) == timestamp[1]

\* Mutant of LatestAirtableUpdate: the stored date is not read
LatestAirtableUpdateUnread(fields) == None

\* lines 83-87: the bill's stored "Last update", or None
LatestAirtableUpdate(fields) ==
    IF "Last update" \in DOMAIN fields THEN Some(fields["Last update"]) ELSE None

\* line 93-96: latest_airtable_update and latest_openstates_action <= latest_airtable_update
NoUpdates(latest, latest_openstates_action) ==
    latest /= None /\ DateLE(latest_openstates_action, latest[1])

\* Mutant of SkipUpdate: `<` for `<=`
SkipUpdateStrict(latest, update_date) ==
    latest /= None /\ DateLE(update_date, latest[1]) /\ update_date /= latest[1]

\* line 111: latest_airtable_update and update_date <= latest_airtable_update
SkipUpdate(latest, update_date) ==
    latest /= None /\ DateLE(update_date, latest[1])

\* line 101: bill["fields"].get("Reading", None)
InitialReading(fields) ==
    IF "Reading" \in DOMAIN fields THEN Some(fields["Reading"]) ELSE None

\* Mutant of AdvanceReading: a second-reading action sets the stage whatever
\* the current one is
AdvanceReadingUnguarded(r, type) ==
    LET r1 == IF r = None \/ r = Some("") THEN Some("First reading") ELSE r
        r2 == IF "bill:reading:2" \in type THEN Some("Second reading") ELSE r1
        r3 == IF "bill:reading:3" \in type /\ r2 = Some("Second reading")
              THEN Some("Third reading") ELSE r2
    IN  r3

\* lines 115-120: the three ifs, in order
AdvanceReading(r, type) ==
    LET r1 == IF r = None \/ r = Some("") THEN Some("First reading") ELSE r
        r2 == IF "bill:reading:2" \in type /\ r1 = Some("First reading")
              THEN Some("Second reading") ELSE r1
        r3 == IF "bill:reading:3" \in type /\ r2 = Some("Second reading")
              THEN Some("Third reading") ELSE r2
    IN  r3

\* line 123
Location(actor) == IF actor = "lower" THEN "Assembly" ELSE "Senate"

\* line 128: bill["fields"].get("Status", "Moving")
StatusOf(fields) == IF "Status" \in DOMAIN fields THEN fields["Status"] ELSE "Moving"

\* lines 126-133
StatusRow(bill, update_data, update_date, r) ==
    ("Bill" :> <<bill.id>>)
    @@ ("Status" :> StatusOf(bill.fields))
    @@ ("Status notes" :> update_data.action)
    @@ ("Date last status change" :> update_date)
    @@ ("Location" :> Location(update_data.actor))
    @@ ("Reading" :> r[1])

----
\* The inputs of a run: the environment's keys, the rows of table "State"
\* and what OpenStates holds for each bill.

\* Bounds of the inputs.
MaxBills == 2
MaxActions == 3
MaxDate == 3

SampleDates ==
    << <<2022, 12, 31>>, <<2023, 1, 31>>, <<2023, 2, 1>>,
       <<2023, 2, 28>>, <<2024, 1, 1>>, <<2024, 1, 2>> >>

Dates == {SampleDates[i] : i \in 1..MaxDate}

\* bill["fields"]: a key/value for each non-empty column
Optional(key, value) == IF value = None THEN <<>> ELSE (key :> value[1])

Fields(bill, year, last, r, status) ==
    Optional("Bill", bill) @@ Optional("Year introduced", year)
    @@ Optional("Last update", last) @@ Optional("Reading", r)
    @@ Optional("Status", status)

OptionalOf(S) == {None} \cup {Some(v) : v \in S}

\* The rows that have a bill identifier, and the rows that have none yet.
BillRows(P) ==
    {Fields(Some(P.bills[b]), Some(y), l, r, s) :
        b \in 1..Len(P.bills), y \in P.years, l \in P.lastUpdates,
        r \in P.readings, s \in P.statuses}

BlankRows(P) == {Fields(None, y, None, None, None) : y \in P.blankYears}

\* One action of a bill's history, as OpenStates returns it
Actions(P) ==
    {[date |-> <<d, t>>, action |-> a, actor |-> c, type |-> ty] :
        d \in P.days, t \in P.times, a \in P.texts, c \in P.actors,
        ty \in P.types}

\* The sum of the first n of `lens`
RECURSIVE SumTo(_, _)
SumTo(lens, n) == IF n = 0 THEN 0 ELSE SumTo(lens, n - 1) + lens[n]

\* The actions of row i, when `flat` holds the actions of all rows one after
\* the other and row k has lens[k] of them
Slice(flat, lens, i) == [k \in 1..lens[i] |-> flat[SumTo(lens, i - 1) + k]]

BillRank(P, fields) == CHOOSE b \in 1..Len(P.bills) : P.bills[b] = fields["Bill"]

\* get_all(sort="Bill") returns the rows in ascending order of "Bill"; P.bills
\* lists the identifiers in that order
SortedByBill(P, t) ==
    \A i, j \in 1..Len(t) :
        (/\ i < j
         /\ "Bill" \in DOMAIN t[i]
         /\ "Bill" \in DOMAIN t[j])
        => BillRank(P, t[i]) <= BillRank(P, t[j])

\* An action whose date no other action's date is after
LastAction(actions) ==
    CHOOSE i \in 1..Len(actions) :
        \A j \in 1..Len(actions) :
            DateLE(DatePart(actions[j].date), DatePart(actions[i].date))

\* What pyopenstates.get_bill returns: the actions and the datetime of the
\* most recent one
BillData(actions) ==
    [action_dates |-> [last |-> actions[LastAction(actions)].date],
     actions |-> actions]

\* The tables of at most P.maxBills rows whose bills have at most
\* P.maxActions actions in all.  A row with a bill identifier has at least one action (its
\* introduction); a row without one is not known to OpenStates.
InitMain(P) ==
    /\ AIRTABLE_API_KEY \in P.keys
    /\ OPENSTATES_API_KEY \in P.keys
    /\ \E n \in 0..P.maxBills : \E lens \in [1..n -> 0..P.maxActions] :
          /\ SumTo(lens, n) <= P.maxActions
          /\ \E t \in [1..n -> BillRows(P) \cup BlankRows(P)] :
                /\ \A i \in 1..n : ("Bill" \in DOMAIN t[i]) <=> (lens[i] > 0)
                /\ SortedByBill(P, t)
                /\ \E flat \in [1..SumTo(lens, n) -> Actions(P)] :
                      /\ state_table = [i \in 1..n |-> [id |-> i, fields |-> t[i]]]
                      /\ openstates = [i \in {k \in 1..n : lens[k] > 0} |->
                                          BillData(Slice(flat, lens, i))]
    /\ run = 1
    /\ pc = "main"
    /\ clock = 0
    /\ burst = 0
    /\ rate = 0
    /\ requests = <<>>
    /\ issued = 0
    /\ recorded = <<>>
    /\ slept = <<>>
    /\ raised = 0
    /\ io = <<>>
    /\ listed_bills = <<>>
    /\ idx = 0
    /\ bill_data = None
    /\ latest_airtable_update = None
    /\ reading = None
    /\ bill_update_count = 0
    /\ act = 0
    /\ stdout = <<>>

----
\* main (src/update.py:36-144): the steps

\* ratelimit's defaults, which main uses
DefaultRate == 2
DefaultBurst == 10

\* Ticks between two readings of the clock in main.  Within the bounds main
\* makes fewer than DefaultBurst calls, so that it never compares a timestamp;
\* the limiter's timing is explored on its own in SpecLimiter.
Elapsed == {1}

Event(op, row, n, arg) == [op |-> op, run |-> run, row |-> row, n |-> n, arg |-> arg]

\* `bill` of the loop over listed_bills
Bill == listed_bills[idx]

\* Lines 38-56.  The keys are checked first; a key that is missing or has no
\* lowercase letter raises ValueError.  Otherwise the rate-limited get_bill
\* is made and the rows of table "State" are read.
Start ==
    /\ pc = "main"
    /\ IF ~KeyConfigured(AIRTABLE_API_KEY) \/ ~KeyConfigured(OPENSTATES_API_KEY)
       THEN /\ pc' = "ValueError"
            /\ UNCHANGED <<limiter_vars, io, listed_bills, idx>>
       ELSE /\ pc' = "bills"
            /\ rate' = DefaultRate
            /\ burst' = DefaultBurst
            /\ requests' = <<>>
            /\ issued' = 0
            /\ recorded' = <<>>
            /\ slept' = <<>>
            /\ raised' = 0
            /\ io' = Append(io, Event("get_all", 0, 0, "State"))
            /\ listed_bills' = state_table
            /\ idx' = 1
            /\ UNCHANGED clock
    /\ UNCHANGED <<env_vars, bill_vars, stdout>>

\* Mutant of SkipBill: the row is not skipped, and bill["fields"]["Bill"]
\* raises KeyError
SkipBillKeyError ==
    /\ pc = "bills"
    /\ idx <= Len(listed_bills)
    /\ "Bill" \notin DOMAIN Bill.fields
    /\ pc' = "KeyError"
    /\ UNCHANGED <<limiter_vars, io, env_vars, listed_bills, idx, bill_vars, stdout>>

\* Lines 62-63: a row with no "Bill"
SkipBill ==
    /\ pc = "bills"
    /\ idx <= Len(listed_bills)
    /\ "Bill" \notin DOMAIN Bill.fields
    /\ idx' = idx + 1
    /\ UNCHANGED <<limiter_vars, io, env_vars, pc, listed_bills, bill_vars, stdout>>

\* Lines 67-104: the bill is fetched through the rate limiter and compared
\* with the stored "Last update"
FetchBill ==
    /\ pc = "bills"
    /\ idx <= Len(listed_bills)
    /\ "Bill" \in DOMAIN Bill.fields
    /\ LET bill_id == ReformatBillId(Bill.fields["Bill"])
           year == ParseInt(Bill.fields["Year introduced"])
           leg_year == LegYear(year)
           data == openstates[Bill.id]
           latest_openstates_action == DatePart(data.action_dates.last)
           latest == LatestAirtableUpdate(Bill.fields)
       IN  \E e \in Elapsed, over \in 0..MaxOversleep :
           /\ LimiterStep(clock + e, over)
           /\ IF Delayed(requests, burst, rate, clock + e, over).raised
              THEN /\ pc' = "IndexError"
                   /\ UNCHANGED <<io, idx, bill_vars, stdout>>
              ELSE /\ io' = Append(io, Event("get_bill", Bill.id, 0,
                                   [state |-> "CA", term |-> leg_year, bill_id |-> bill_id]))
                   /\ bill_data' = Some(data)
                   /\ latest_airtable_update' = latest
                   /\ IF NoUpdates(latest, latest_openstates_action)
                      THEN /\ stdout' = Append(stdout, <<bill_id, "No updates">>)
                           /\ idx' = idx + 1
                           /\ UNCHANGED <<pc, reading, bill_update_count, act>>
                      ELSE /\ reading' = InitialReading(Bill.fields)
                           /\ bill_update_count' = 0
                           /\ act' = 1
                           /\ pc' = "actions"
                           /\ UNCHANGED <<idx, stdout>>
    /\ UNCHANGED <<env_vars, listed_bills>>

\* Lines 106-136: one action of the bill's history
ProcessUpdate ==
    /\ pc = "actions"
    /\ act <= Len(bill_data[1].actions)
    /\ LET update_data == bill_data[1].actions[act]
           update_date == DatePart(update_data.date)
           r == AdvanceReading(reading, update_data.type)
       IN  IF SkipUpdate(latest_airtable_update, update_date)
           THEN UNCHANGED <<reading, io, bill_update_count>>
           ELSE /\ reading' = r
                /\ io' = Append(io, Event("insert", Bill.id, act,
                                    StatusRow(Bill, update_data, update_date, r)))
                /\ bill_update_count' = bill_update_count + 1
    /\ act' = act + 1
    /\ UNCHANGED <<limiter_vars, env_vars, pc, listed_bills, idx, bill_data,
                   latest_airtable_update, stdout>>

\* Mutant of FinishBill: the loop does not move on to the next bill
FinishBillAgain ==
    /\ pc = "actions"
    /\ act > Len(bill_data[1].actions)
    /\ pc' = "bills"
    /\ UNCHANGED <<limiter_vars, io, env_vars, listed_bills, idx, bill_vars, stdout>>

\* Lines 137-141: the bill's count is printed
FinishBill ==
    /\ pc = "actions"
    /\ act > Len(bill_data[1].actions)
    /\ stdout' = Append(stdout, <<ReformatBillId(Bill.fields["Bill"]), bill_update_count,
                                  IF bill_update_count = 1 THEN "update" ELSE "updates">>)
    /\ idx' = idx + 1
    /\ pc' = "bills"
    /\ UNCHANGED <<limiter_vars, io, env_vars, listed_bills, bill_vars>>

\* Lines 143-144
Finish ==
    /\ pc = "bills"
    /\ idx > Len(listed_bills)
    /\ stdout' = stdout \o << <<>>, <<"See https://airtable.com/appVuarUc0kCpjwWn">> >>
    /\ pc' = "done"
    /\ UNCHANGED <<limiter_vars, io, env_vars, listed_bills, idx, bill_vars>>

Next ==
    \/ Start
    \/ SkipBill
    \/ FetchBill
    \/ ProcessUpdate
    \/ FinishBill
    \/ Finish

----
\* Runs over tables whose bills differ in their stored "Last update" and
\* whose actions differ in their dates.

ValidKey == Some(<<"k", "e", "y", "X", "7">>)

DiffProfile ==
    [maxBills |-> MaxBills,
     maxActions |-> MaxActions,
     keys |-> {ValidKey},
     bills |-> << <<"A", "B", "1", "2">> >>,
     years |-> {<<"2", "0", "2", "3">>},
     blankYears |-> {None},
     lastUpdates |-> OptionalOf(Dates),
     readings |-> {None},
     statuses |-> {None},
     days |-> Dates,
     times |-> {"00:00:00"},
     texts |-> {"Read first time."},
     actors |-> {"lower"},
     types |-> {{"bill:introduced"}}]

Init == InitMain(DiffProfile)

Spec == Init /\ [][Next]_vars

----
\* What a run has done, read from io

Fetches == SelectSeq(io, LAMBDA e : e.op = "get_bill")

InsertsFor(row, r) == SelectSeq(io, LAMBDA e : e.op = "insert" /\ e.row = row /\ e.run = r)

\* The rows of the table that have a bill identifier
Tracked == {i \in 1..Len(state_table) : "Bill" \in DOMAIN state_table[i].fields}

\* main is past row i of listed_bills
Processed(i) == pc \in {"bills", "actions", "done"} /\ idx > i

\* Chronological order, read off the calendar: SampleDates is ascending
DateIndex(d) == CHOOSE i \in 1..Len(SampleDates) : SampleDates[i] = d

After(a, b) == DateIndex(a) > DateIndex(b)

\* The actions of row i that are new with respect to its stored "Last update"
NewActions(i) ==
    LET f == state_table[i].fields
        acts == openstates[i].actions
    IN  {n \in 1..Len(acts) :
            "Last update" \in DOMAIN f => After(acts[n].date[1], f["Last update"])}

\* C1: a Status Row is inserted only for an action whose date is strictly
\* after the bill's stored "Last update" (for any action when there is none),
\* it carries that action's date, and once the bill is processed exactly one
\* row has been inserted for each such action and none for any other.
C1_DiffCorrect ==
    /\ \A k \in 1..Len(io) :
          io[k].op = "insert" =>
             /\ io[k].n \in NewActions(io[k].row)
             /\ io[k].arg["Date last status change"]
                   = openstates[io[k].row].actions[io[k].n].date[1]
    /\ \A i \in Tracked :
          Processed(i) =>
             /\ Len(InsertsFor(i, 1)) = Cardinality(NewActions(i))
             /\ \A n \in NewActions(i) :
                   \E k \in 1..Len(io) :
                      io[k].op = "insert" /\ io[k].row = i /\ io[k].n = n

\* A bill with a stored date, actions on both sides of it, processed
C1_Witness ==
    /\ pc = "done"
    /\ \E i \in Tracked :
          /\ "Last update" \in DOMAIN state_table[i].fields
          /\ NewActions(i) /= {}
          /\ NewActions(i) /= 1..Len(openstates[i].actions)
          /\ Len(InsertsFor(i, 1)) >= 1
          /\ \E n \in 1..Len(openstates[i].actions) :
                openstates[i].actions[n].date[1] = state_table[i].fields["Last update"]

\* C10: the fetches of a run are one per row with a bill identifier, in the
\* order of the list, each through the rate limiter; every insert follows the
\* fetch of its own bill with no other fetch in between; the inserts of a bill
\* are in the order of its actions; nothing is fetched or inserted twice.
C10_Sequential ==
    /\ \A p, q \in 1..Len(io) :
          (p < q /\ io[p].op = "get_bill" /\ io[q].op = "get_bill")
             => io[p].row < io[q].row
    /\ \A p \in 1..Len(io) : io[p].op = "get_bill" => io[p].row \in Tracked
    /\ Len(Fetches) = Len(recorded) /\ issued = Len(Fetches) /\ raised = 0
    /\ \A i \in Tracked :
          Processed(i) => \E p \in 1..Len(io) : io[p].op = "get_bill" /\ io[p].row = i
    /\ \A q \in 1..Len(io) :
          io[q].op = "insert" =>
             \E p \in 1..(q - 1) :
                /\ io[p].op = "get_bill" /\ io[p].row = io[q].row
                /\ \A m \in (p + 1)..(q - 1) : io[m].op = "insert"
    /\ \A p, q \in 1..Len(io) :
          (p < q /\ io[p].op = "insert" /\ io[q].op = "insert" /\ io[p].row = io[q].row)
             => io[p].n < io[q].n

\* Two bills fetched, rows inserted for both, two of them for one bill
C10_Witness ==
    /\ pc = "done"
    /\ Len(Fetches) >= 2
    /\ \E i, j \in Tracked :
          /\ i /= j
          /\ Len(InsertsFor(i, 1)) >= 2
          /\ Len(InsertsFor(j, 1)) >= 1

\* The calls a run makes for a list of rows that all have a bill identifier:
\* per row its fetch, then its inserts
RECURSIVE InsertsOver(_, _, _, _, _)
InsertsOver(bill, actions, n, latest, r) ==
    IF n > Len(actions) THEN <<>>
    ELSE LET u == actions[n]
             d == DatePart(u.date)
             r2 == AdvanceReading(r, u.type)
         IN  IF SkipUpdate(latest, d)
             THEN InsertsOver(bill, actions, n + 1, latest, r)
             ELSE <<Event("insert", bill.id, n, StatusRow(bill, u, d, r2))>>
                  \o InsertsOver(bill, actions, n + 1, latest, r2)

RECURSIVE RunOver(_)
RunOver(bills) ==
    IF bills = <<>> THEN <<>>
    ELSE LET bill == Head(bills)
             data == openstates[bill.id]
             latest == LatestAirtableUpdate(bill.fields)
             fetch == Event("get_bill", bill.id, 0,
                        [state |-> "CA",
                         term |-> LegYear(ParseInt(bill.fields["Year introduced"])),
                         bill_id |-> ReformatBillId(bill.fields["Bill"])])
         IN  <<fetch>>
             \o (IF NoUpdates(latest, DatePart(data.action_dates.last))
                 THEN <<>>
                 ELSE InsertsOver(bill, data.actions, 1, latest, InitialReading(bill.fields)))
             \o RunOver(Tail(bills))

\* main is at a row that has no bill identifier
AtBlankRow ==
    pc = "bills" /\ idx <= Len(listed_bills) /\ "Bill" \notin DOMAIN Bill.fields

\* C7: at a row with no bill identifier the run makes no call to the outside,
\* leaves the rate limiter as it is, does not abort and goes on to the next
\* row; and the calls of a finished run are those of a run over the list with
\* the identifier-less rows taken out.
C7_BlankRowSkipped ==
    /\ [][AtBlankRow =>
            /\ io' = io
            /\ UNCHANGED limiter_vars
            /\ pc' = "bills"
            /\ idx' = idx + 1
            /\ UNCHANGED <<listed_bills, state_table, openstates>>]_vars
    /\ [](pc = "done" =>
            /\ io = <<Event("get_all", 0, 0, "State")>>
                    \o RunOver(SelectSeq(listed_bills, LAMBDA b : "Bill" \in DOMAIN b.fields))
            /\ Len(recorded) = Cardinality(Tracked)
            /\ Len(requests) = Cardinality(Tracked))

\* A finished run whose list has a row without identifier before a bill for
\* which rows were inserted
C7_Witness ==
    /\ pc = "done"
    /\ \E i, j \in 1..Len(listed_bills) :
          /\ i < j
          /\ "Bill" \notin DOMAIN listed_bills[i].fields
          /\ j \in Tracked
          /\ Len(InsertsFor(j, 1)) >= 1

----
\* Two runs in succession against the same OpenStates data.  Between them
\* Airtable brings each bill's "Last update" up to the latest date among the
\* rows the first run inserted for it.

\* The latest "Date last status change" among the rows inserted for row i
LatestInserted(i) ==
    LET rows == InsertsFor(i, 1)
        k == CHOOSE a \in 1..Len(rows) :
                \A b \in 1..Len(rows) :
                    DateLE(rows[b].arg["Date last status change"],
                           rows[a].arg["Date last status change"])
    IN  rows[k].arg["Date last status change"]

Rerun ==
    /\ pc = "done"
    /\ run = 1
    /\ state_table' =
          [i \in 1..Len(state_table) |->
              IF InsertsFor(i, 1) = <<>>
              THEN state_table[i]
              ELSE [state_table[i] EXCEPT
                      !.fields = ("Last update" :> LatestInserted(i)) @@ @]]
    /\ run' = 2
    /\ pc' = "main"
    /\ listed_bills' = <<>>
    /\ idx' = 0
    /\ bill_data' = None
    /\ latest_airtable_update' = None
    /\ reading' = None
    /\ bill_update_count' = 0
    /\ act' = 0
    /\ stdout' = <<>>
    /\ UNCHANGED <<limiter_vars, io, AIRTABLE_API_KEY, OPENSTATES_API_KEY, openstates>>

NextRerun ==
    \/ Next
    \/ Rerun

SpecRerun == Init /\ [][NextRerun]_vars

\* C2: the second run inserts no row: every insert there is belongs to the
\* first run.
C2_Idempotent == \A k \in 1..Len(io) : io[k].op = "insert" => io[k].run = 1

\* The second run has finished, after a first run that inserted rows for a
\* bill that had no "Last update" and for one that had, and it fetched both
C2_Witness ==
    /\ run = 2
    /\ pc = "done"
    /\ \E i, j \in Tracked :
          /\ Len(InsertsFor(i, 1)) >= 2
          /\ Len(InsertsFor(j, 1)) >= 1
          /\ i /= j
          /\ \E p, q \in 1..Len(io) :
                /\ io[p].op = "get_bill" /\ io[p].run = 2 /\ io[p].row = i
                /\ io[q].op = "get_bill" /\ io[q].run = 2 /\ io[q].row = j

----
\* Runs over one bill whose stored reading stage and whose actions' type tags
\* differ.  The bill's "Last update" is the first date of the calendar, so an
\* action of that date is skipped and one of the second date is inserted.

ReadingBills == 1
ReadingActions == 3

ReadingProfile ==
    [maxBills |-> ReadingBills,
     maxActions |-> ReadingActions,
     keys |-> {ValidKey},
     bills |-> << <<"A", "B", "1", "2">> >>,
     years |-> {<<"2", "0", "2", "3">>},
     blankYears |-> {None},
     lastUpdates |-> {Some(SampleDates[1])},
     readings |-> OptionalOf({"First reading", "Second reading", "Third reading"}),
     statuses |-> {None},
     days |-> {SampleDates[1], SampleDates[2]},
     times |-> {"00:00:00"},
     texts |-> {"Read."},
     actors |-> {"lower"},
     types |-> SUBSET {"bill:reading:2", "bill:reading:3"}]

InitReading == InitMain(ReadingProfile)

SpecReading == InitReading /\ [][Next]_vars

StageRank(stage) ==
    CASE stage = "First reading" -> 1
      [] stage = "Second reading" -> 2
      [] stage = "Third reading" -> 3

\* The type tags of the actions of row i for which a row was inserted
InsertedTypes(i) ==
    LET rows == InsertsFor(i, 1)
    IN  [k \in 1..Len(rows) |-> openstates[i].actions[rows[k].n].type]

InsertedStages(i) ==
    LET rows == InsertsFor(i, 1)
    IN  [k \in 1..Len(rows) |-> rows[k].arg["Reading"]]

\* C5: the stages on the rows inserted for a bill, in the order of insertion,
\* never go back in First < Second < Third, and the first is not before the
\* bill's stored stage; inserts for actions tagged second-reading,
\* third-reading, second-reading, from "First reading", carry Second, Third,
\* Third.
C5_ReadingMonotone ==
    \A i \in Tracked :
        LET stages == InsertedStages(i)
            f == state_table[i].fields
        IN  /\ \A k \in 1..Len(stages) :
                  stages[k] \in {"First reading", "Second reading", "Third reading"}
            /\ \A k \in 1..(Len(stages) - 1) :
                  StageRank(stages[k]) <= StageRank(stages[k + 1])
            /\ ("Reading" \in DOMAIN f /\ stages /= <<>>)
                  => StageRank(f["Reading"]) <= StageRank(stages[1])
            /\ (/\ "Reading" \in DOMAIN f
                /\ f["Reading"] = "First reading"
                /\ InsertedTypes(i) = << {"bill:reading:2"}, {"bill:reading:3"},
                                         {"bill:reading:2"} >>)
                  => stages = <<"Second reading", "Third reading", "Third reading">>

\* The bill of the example, processed
C5_Witness ==
    /\ pc = "done"
    /\ \E i \in Tracked :
          /\ "Reading" \in DOMAIN state_table[i].fields
          /\ state_table[i].fields["Reading"] = "First reading"
          /\ InsertedTypes(i) = << {"bill:reading:2"}, {"bill:reading:3"},
                                   {"bill:reading:2"} >>
          /\ InsertedStages(i) = <<"Second reading", "Third reading", "Third reading">>

----
\* Runs over bills that differ in identifier, year of introduction and
\* status, with actions that differ in chamber and time of day.

FieldBills == 1
FieldActions == 1

\* Years of introduction, with the session each belongs to: an odd year and
\* the even year after it, pair by pair
Sessions ==
    << <<"2", "0", "2", "3">>, <<"2", "0", "2", "3", "2", "0", "2", "4">>,
       <<"2", "0", "2", "4">>, <<"2", "0", "2", "3", "2", "0", "2", "4">>,
       <<"1", "9", "9", "9">>, <<"1", "9", "9", "9", "2", "0", "0", "0">>,
       <<"2", "0", "0", "0">>, <<"1", "9", "9", "9", "2", "0", "0", "0">>,
       <<"9", "9">>, <<"9", "9", "1", "0", "0">>,
       <<"1", "0", "0">>, <<"9", "9", "1", "0", "0">> >>

Years == {Sessions[2 * k - 1] : k \in 1..(Len(Sessions) \div 2)}

SessionOf(year) == Sessions[2 * (CHOOSE k \in 1..(Len(Sessions) \div 2) :
                                    Sessions[2 * k - 1] = year)]

FieldProfile ==
    [maxBills |-> FieldBills,
     maxActions |-> FieldActions,
     keys |-> {ValidKey},
     bills |-> << <<"A", "B", " ", "7">>, <<"A", "B", "1", "2">>, <<"a", "b", "3">> >>,
     years |-> Years,
     blankYears |-> {None, Some(<<"2", "0", "2", "3">>)},
     lastUpdates |-> {None},
     readings |-> {None},
     statuses |-> OptionalOf({"Dead"}),
     days |-> {SampleDates[1]},
     times |-> {"00:00:00", "17:30:00"},
     texts |-> {"Read first time."},
     actors |-> {"lower", "upper", "joint"},
     types |-> {{"bill:introduced"}}]

InitFields == InitMain(FieldProfile)

SpecFields == InitFields /\ [][Next]_vars

OddDigits == {"1", "3", "5", "7", "9"}

\* C8: the session key of every fetch is that of the bill's year: the year
\* and the next one for an odd year, the year before and the year for an even
\* one, so that 2023 and 2024 both give "20232024".
C8_SessionKey ==
    \A p \in 1..Len(io) :
        io[p].op = "get_bill" =>
            LET year == state_table[io[p].row].fields["Year introduced"]
                term == io[p].arg.term
            IN  /\ term = SessionOf(year)
                /\ IF year[Len(year)] \in OddDigits
                   THEN SubSeq(term, 1, Len(year)) = year
                   ELSE SubSeq(term, Len(term) - Len(year) + 1, Len(term)) = year
                /\ year \in {<<"2", "0", "2", "3">>, <<"2", "0", "2", "4">>}
                      => term = <<"2", "0", "2", "3", "2", "0", "2", "4">>

\* A bill of 2024 fetched with the key of session 2023-2024
C8_Witness ==
    \E p \in 1..Len(io) :
        /\ io[p].op = "get_bill"
        /\ state_table[io[p].row].fields["Year introduced"] = <<"2", "0", "2", "4">>
        /\ io[p].arg.term = <<"2", "0", "2", "3", "2", "0", "2", "4">>

----
\* Runs with keys that are missing, empty, without a lowercase letter, or
\* good.

ConfigBills == 1
ConfigActions == 2

Keys ==
    {None, Some(<<>>), Some(<<"K", "E", "Y", "-", "7">>),
     Some(<<"k", "e", "y", "X", "7">>), Some(<<"4", "2", "z">>)}

ConfigProfile ==
    [maxBills |-> ConfigBills,
     maxActions |-> ConfigActions,
     keys |-> Keys,
     bills |-> << <<"A", "B", "1", "2">> >>,
     years |-> {<<"2", "0", "2", "3">>},
     blankYears |-> {None},
     lastUpdates |-> {None},
     readings |-> {None},
     statuses |-> {None},
     days |-> {SampleDates[1], SampleDates[2]},
     times |-> {"00:00:00"},
     texts |-> {"Read first time."},
     actors |-> {"lower"},
     types |-> {{"bill:introduced"}}]

InitConfig == InitMain(ConfigProfile)

SpecConfig == InitConfig /\ [][Next]_vars

\* The key is absent or holds no lowercase letter
BadKey(key) == key = None \/ \A i \in 1..Len(key[1]) : key[1][i] \notin LOWER

\* C6: with a key that is absent or has no lowercase letter the run makes no
\* call to the outside (no read of the table, no fetch, no insert), builds no
\* rate limiter, and where it has left its start it has stopped with the
\* configuration error.
C6_ConfigFirst ==
    (BadKey(AIRTABLE_API_KEY) \/ BadKey(OPENSTATES_API_KEY))
        => /\ io = <<>>
           /\ pc \in {"main", "ValueError"}
           /\ requests = <<>> /\ issued = 0
           /\ listed_bills = <<>>

\* A run stopped by an OpenStates key in capitals, the Airtable key being
\* good and the table holding a bill
C6_Witness ==
    /\ pc = "ValueError"
    /\ ~BadKey(AIRTABLE_API_KEY)
    /\ OPENSTATES_API_KEY = Some(<<"K", "E", "Y", "-", "7">>)
    /\ Tracked /= {}

----
\* The rate limiter on its own: ratelimit(func, rate, burst) for any burst
\* and rate of the bounds, and a caller that invokes the wrapped function
\* at arbitrary moments.

InitLimiter ==
    /\ clock = 0
    /\ burst \in 0..MaxBurst
    /\ rate \in 1..MaxRate
    /\ requests = <<>>
    /\ issued = 0
    /\ recorded = <<>>
    /\ slept = <<>>
    /\ raised = 0
    /\ io = <<>>
    /\ AIRTABLE_API_KEY = None
    /\ OPENSTATES_API_KEY = None
    /\ state_table = <<>>
    /\ openstates = <<>>
    /\ run = 1
    /\ pc = "ratelimit"
    /\ listed_bills = <<>>
    /\ idx = 0
    /\ bill_data = None
    /\ latest_airtable_update = None
    /\ reading = None
    /\ bill_update_count = 0
    /\ act = 0
    /\ stdout = <<>>

\* delayed(**kwargs) with func a function that only notes it was called.
delayed ==
    /\ pc = "ratelimit"
    /\ issued < MaxCalls
    /\ \E now \in clock..(clock + MaxGap), over \in 0..MaxOversleep :
          /\ LimiterStep(now, over)
          /\ io' = IF Delayed(requests, burst, rate, now, over).raised
                   THEN io
                   ELSE Append(io, [op |-> "func", run |-> run, row |-> 0,
                                    n |-> 0, arg |-> clock'])
          /\ UNCHANGED <<env_vars, main_vars>>

NextLimiter == delayed

SpecLimiter == InitLimiter /\ [][NextLimiter]_vars

\* The last n entries of a sequence
LastN(seq, n) == SubSeq(seq, Len(seq) - n + 1, Len(seq))

Min(a, b) == IF a <= b THEN a ELSE b

\* C3: once burst + 1 calls of the wrapped function have been issued, the
\* (burst + 1)-th call has been performed, no earlier than burst / rate after
\* the recorded time of the first.
C3_BurstBound ==
    issued >= burst + 1 =>
        /\ Len(recorded) >= burst + 1
        /\ recorded[burst + 1] >= recorded[1] + Window(burst, rate)

\* C4: the first burst calls ask for no sleep; the (k + burst)-th call is
\* recorded no earlier than burst / rate after the k-th; so calls recorded
\* within a span shorter than burst / rate are at most burst.
C4_SustainedRate ==
    /\ Len(recorded) = Len(slept)
    /\ \A k \in 1..Len(slept) : k <= burst => slept[k] = 0
    /\ \A k \in 1..Len(recorded) :
          k + burst <= Len(recorded)
             => recorded[k + burst] >= recorded[k] + Window(burst, rate)
    /\ \A i, j \in 1..Len(recorded) :
          (i <= j /\ recorded[j] - recorded[i] < Window(burst, rate))
             => j - i + 1 <= burst

\* A limiter of burst 2 or more that has let the burst through, then made a
\* call sleep and let a later one through without sleep
C4_Witness ==
    /\ burst >= 2
    /\ Len(recorded) >= burst + 2
    /\ \E k, m \in 1..Len(slept) :
          /\ burst < k /\ k < m
          /\ slept[k] > 0
          /\ slept[m] = 0

\* C9: the list holds at most burst timestamps, oldest first, and they are
\* the timestamps of the most recent calls.
C9_SlidingWindow ==
    /\ Len(requests) <= burst
    /\ \A i, j \in 1..Len(requests) : i < j => requests[i] <= requests[j]
    /\ requests = LastN(recorded, Min(burst, Len(recorded)))

\* A full list from which timestamps have been evicted
C9_Witness ==
    /\ burst >= 2
    /\ Len(requests) = burst
    /\ Len(recorded) >= burst + 2
    /\ requests[1] < requests[burst]

====
